---- MODULE Spec2Model ----
(***************************************************************************)
(* Embedded sign-in flow engine of BaseSignIn (React): the controller     *)
(* state kept by BaseSignInContent, its asynchronous handlers             *)
(* (initialize effect, handleSubmit, handleAuthenticatorSelection), the   *)
(* popup redirect coordinator built by handleRedirectionIfNeeded          *)
(* (message listener + poll timer) and the passkey ceremony.              *)
(*                                                                         *)
(* Every handler is an async function: it runs synchronously up to its    *)
(* first await, leaves a pending call in `calls`, and its continuation    *)
(* runs when the environment resolves or rejects that call.  A handler    *)
(* reads `currentFlow` from the render closure it was created in, so a    *)
(* pending call carries the flow it captured.                              *)
(***************************************************************************)
EXTENDS Integers, Sequences, FiniteSets, TLC

\* ---------------------------------------------------------------- bounds
MaxCalls == 2
MaxPopups == 1
MaxRequests == 3

\* ------------------------------------------------------------- constants
Null == "null"

PasskeyId == "FIDOAuthenticator"

HIDDEN_AUTHENTICATORS == {"T3JnYW5pemF0aW9uQXV0aGVudGljYXRvcjpTU08"}

UserPrompt == "USER_PROMPT"
InternalPrompt == "INTERNAL_PROMPT"
RedirectionPrompt == "REDIRECTION_PROMPT"

AuthenticatorPrompt == "AUTHENTICATOR_PROMPT"
MultiOptionsPrompt == "MULTI_OPTIONS_PROMPT"

InProgress == "INCOMPLETE"
SuccessCompleted == "SUCCESS_COMPLETED"
FailCompleted == "FAIL_COMPLETED"
FailIncomplete == "FAIL_INCOMPLETE"

FlowId == "flow-1"

\* ------------------------------------------- authenticators, steps, flows
\* The authenticator descriptors the server may offer (EmbeddedSignInFlowAuthenticator).
\* fido carries the passkey id without challenge data.
Authenticators ==
  [ basic   |-> [authenticatorId |-> "BasicAuthenticator", idp |-> "LOCAL",
                 promptType |-> UserPrompt, params |-> <<"username", "remember">>,
                 requiredParams |-> {"username"}, challengeData |-> FALSE, redirectUrl |-> FALSE],
    passkey |-> [authenticatorId |-> PasskeyId, idp |-> "LOCAL",
                 promptType |-> InternalPrompt, params |-> <<>>,
                 requiredParams |-> {}, challengeData |-> TRUE, redirectUrl |-> FALSE],
    google  |-> [authenticatorId |-> "GoogleOIDCAuthenticator", idp |-> "Google",
                 promptType |-> RedirectionPrompt, params |-> <<>>,
                 requiredParams |-> {}, challengeData |-> FALSE, redirectUrl |-> TRUE],
    sso     |-> [authenticatorId |-> "T3JnYW5pemF0aW9uQXV0aGVudGljYXRvcjpTU08", idp |-> "SSO",
                 promptType |-> RedirectionPrompt, params |-> <<>>,
                 requiredParams |-> {}, challengeData |-> FALSE, redirectUrl |-> TRUE],
    ssoUser |-> [authenticatorId |-> "T3JnYW5pemF0aW9uQXV0aGVudGljYXRvcjpTU08", idp |-> "SSO",
                 promptType |-> UserPrompt, params |-> <<"username">>,
                 requiredParams |-> {"username"}, challengeData |-> FALSE, redirectUrl |-> FALSE],
    fido    |-> [authenticatorId |-> PasskeyId, idp |-> "LOCAL",
                 promptType |-> InternalPrompt, params |-> <<>>,
                 requiredParams |-> {}, challengeData |-> FALSE, redirectUrl |-> FALSE] ]

AuthenticatorNames == DOMAIN Authenticators

Params == {"username", "remember"}
Values == {"", "x"}

\* The fields the user types into; the optional field is left as it is.
EditedParams == {"username"}

\* The steps (nextStep) a flow response may carry; "none" is a response without nextStep.
Steps ==
  [ basic    |-> [stepType |-> AuthenticatorPrompt, authenticators |-> <<"basic">>],
    multi    |-> [stepType |-> MultiOptionsPrompt,  authenticators |-> <<"basic", "google", "sso", "ssoUser", "fido">>],
    single   |-> [stepType |-> MultiOptionsPrompt,  authenticators |-> <<"basic">>],
    redirect |-> [stepType |-> AuthenticatorPrompt, authenticators |-> <<"google">>],
    passkey  |-> [stepType |-> AuthenticatorPrompt, authenticators |-> <<"passkey">>],
    ssoOnly  |-> [stepType |-> AuthenticatorPrompt, authenticators |-> <<"sso">>],
    none     |-> [stepType |-> "none", authenticators |-> <<>>] ]

\* The responses onInitialize / onSubmit may resolve with.
Responses ==
  [flowStatus : {InProgress}, step : {"basic", "multi", "single", "redirect", "passkey"}]
    \cup [flowStatus : {SuccessCompleted}, step : {"none"}]
    \cup [flowStatus : {FailCompleted, FailIncomplete}, step : {"none"}]

NoFlow == [flowStatus |-> Null, step |-> "none"]

TerminalStatuses == {SuccessCompleted, FailCompleted, FailIncomplete}

HasNextStep(response) == response.step # "none"

NextStep(response) == Steps[response.step]

\* currentFlow.links[0]: every response carries its own submission target.
Links(flow) == [method |-> "POST", url |-> flow.step]

AuthData(response) == IF response.flowStatus = SuccessCompleted THEN "authData" ELSE "undefined"

\* Errors a rejected promise may carry: an AsgardeoAPIError or any other Error.
Rejections == {"api", "other"}

\* Failure messages of the credential ceremony.
CeremonyFailures == {"The operation was cancelled.", "Blocked by a security policy."}

\* errorMessage.includes('security') over the messages above.
IncludesSecurity(message) == message \in {"Blocked by a security policy."}

Guidance == " This may be due to browser security settings, an insecure connection, or device restrictions."

HostOrigin == "https://host"
Origins == {HostOrigin, "https://app"}

\* Addresses of the child window: the identity provider (cross-origin, its
\* location unreadable) and same-origin addresses with their query parameters
\* (none at all: a page of the host without code= or error=).
IdpUrl == [readable |-> FALSE, code |-> Null, state |-> Null, error |-> Null]

CallbackUrl(code, state, err) == [readable |-> TRUE, code |-> code, state |-> state, error |-> err]

PopupUrls == {IdpUrl, CallbackUrl("u-code", "u-state", Null), CallbackUrl("u-code", Null, Null),
              CallbackUrl(Null, Null, "denied"), CallbackUrl(Null, Null, Null)}

\* event.data of a message: {code, state, error}.
NoData == [code |-> Null, state |-> Null, error |-> Null]
CodeAndState == [code |-> "m-code", state |-> "m-state", error |-> Null]
CodeOnly == [code |-> "m-code", state |-> Null, error |-> Null]
ErrorOnly == [code |-> Null, state |-> Null, error |-> "denied"]

MessageData == {CodeAndState, CodeOnly, ErrorOnly}

\* The message events delivered to the host window: src is the window that posted
\* it (0: a window that is not a popup of this controller).
Messages ==
  [src : 1..MaxPopups, origin : Origins, data : {CodeAndState}]
    \cup [src : 1..MaxPopups, origin : {HostOrigin}, data : {ErrorOnly, CodeOnly}]
    \cup [src : {0}, origin : {HostOrigin}, data : {CodeAndState}]

\* -------------------------------------------------------------- variables
VARIABLES
  currentFlow,           \* useState currentFlow
  currentAuthenticator,  \* useState currentAuthenticator (name or Null)
  error,                 \* useState error
  loading,               \* useState isSignInInitializationRequestLoading
  isInitialized,         \* useState isInitialized
  formValues,            \* useForm values
  reRenderCheckRef,      \* useRef reRenderCheckRef.current
  effectDue,             \* the passkey auto-trigger effect has not yet run for currentAuthenticator
  calls,                 \* pending awaits: onInitialize, onSubmit, ceremony
  popups,                \* redirect attempts (one per handleRedirectionIfNeeded that opened a popup)
  windows,               \* child browsing contexts
  requests,              \* number of onSubmit calls made so far
  terminal,              \* a response with a terminal status has been received
  seenMulti,             \* a response offering more than one authenticator has been received
  latest,                \* the most recently received flow response that carries a next step
  io,                    \* the last event and what the controller emitted while handling it
  externalIsLoading,     \* prop isLoading
  afterSignInUrl,        \* prop afterSignInUrl (an origin or Null)
  mounted,               \* the component is mounted (no render has thrown)
  probe,                 \* input and result of a utility function applied on its own
  signIn                 \* state of the component-driven BaseSignInContent

ctl == <<currentFlow, currentAuthenticator, error, loading, isInitialized, formValues,
         reRenderCheckRef, effectDue, calls, popups, windows, requests, terminal, seenMulti,
         latest>>

vars == <<currentFlow, currentAuthenticator, error, loading, isInitialized, formValues,
          reRenderCheckRef, effectDue, calls, popups, windows, requests, terminal, seenMulti,
          latest, io, externalIsLoading, afterSignInUrl, mounted, probe, signIn>>

\* The controller state as one record, so that a handler is a function on it.
St ==
  [currentFlow |-> currentFlow, currentAuthenticator |-> currentAuthenticator, error |-> error,
   loading |-> loading, isInitialized |-> isInitialized, formValues |-> formValues,
   reRenderCheckRef |-> reRenderCheckRef, effectDue |-> effectDue, calls |-> calls,
   popups |-> popups, windows |-> windows, requests |-> requests, terminal |-> terminal,
   seenMulti |-> seenMulti, latest |-> latest, io |-> io]

Apply(s) ==
  /\ currentFlow' = s.currentFlow
  /\ currentAuthenticator' = s.currentAuthenticator
  /\ error' = s.error
  /\ loading' = s.loading
  /\ isInitialized' = s.isInitialized
  /\ formValues' = s.formValues
  /\ reRenderCheckRef' = s.reRenderCheckRef
  /\ effectDue' = s.effectDue
  /\ calls' = s.calls
  /\ popups' = s.popups
  /\ windows' = s.windows
  /\ requests' = s.requests
  /\ terminal' = s.terminal
  /\ seenMulti' = s.seenMulti
  /\ latest' = s.latest
  /\ io' = s.io

\* A step to state s, within the bounds of the model; the props stay as they are.
Step(s) ==
  /\ Len(s.calls) <= MaxCalls
  /\ Len(s.popups) <= MaxPopups
  /\ s.requests <= MaxRequests
  /\ Apply(s)
  /\ UNCHANGED <<externalIsLoading, afterSignInUrl, mounted, probe, signIn>>

NoParams == [p \in {} |-> ""]

\* No utility function is being applied.
NoProbe == [fn |-> "none"]

\* The component-driven BaseSignInContent is not in use.
NotRendered == [rendered |-> FALSE]

\* What the last step was (op, and the raw event it handled) and what it emitted.
Event(op) ==
  [op |-> op, kind |-> "none", status |-> "none", step |-> "none", attempt |-> 0,
   src |-> 0, origin |-> "none", data |-> NoData, failure |-> "none", blocked |-> FALSE,
   sent |-> <<>>, onSuccess |-> <<>>, onError |-> 0, onFlowChange |-> 0]

Begin(s, op) == [s EXCEPT !.io = Event(op)]

RemoveAt(seq, k) == [i \in 1..(Len(seq) - 1) |-> IF i < k THEN seq[i] ELSE seq[i + 1]]

\* ------------------------------------------------------------ classifier
\* The classifier without its prompt-type test.
IsPasskeyDescriptor_AnyPrompt(descriptor) ==
  /\ descriptor.authenticatorId = PasskeyId
  /\ descriptor.challengeData

\* isPasskeyAuthenticator over a descriptor: the passkey id, the internal prompt
\* type and (truthy) challenge data.
IsPasskeyDescriptor(descriptor) ==
  /\ descriptor.authenticatorId = PasskeyId
  /\ descriptor.promptType = InternalPrompt
  /\ descriptor.challengeData

\* The classification by id and prompt type alone.
isPasskeyAuthenticator_IdAndPrompt(authenticator) ==
  /\ Authenticators[authenticator].authenticatorId = PasskeyId
  /\ Authenticators[authenticator].promptType = InternalPrompt

isPasskeyAuthenticator(authenticator) == IsPasskeyDescriptor(Authenticators[authenticator])

\* isLoading = externalIsLoading || isSignInInitializationRequestLoading
isLoading == externalIsLoading \/ loading


\* ----------------------------------------------------------- small steps
setError(s, text) == [s EXCEPT !.error = text]

onFlowChange(s) == [s EXCEPT !.io.onFlowChange = @ + 1]

onSuccess(s, authData) == [s EXCEPT !.io.onSuccess = Append(@, authData)]

onError(s) == [s EXCEPT !.io.onError = @ + 1]

\* finally { setIsSignInInitializationRequestLoading(false) }
Finally(s) == [s EXCEPT !.loading = FALSE]

\* setIsSignInInitializationRequestLoading(true); setError(null); setMessages([])
StartRequest(s) == [s EXCEPT !.loading = TRUE, !.error = Null]

ParamSet(authenticator) ==
  {Authenticators[authenticator].params[i] : i \in 1..Len(Authenticators[authenticator].params)}

\* formFields with every field marked required.
formFields_AllRequired(s) ==
  IF s.currentAuthenticator = Null THEN <<>>
  ELSE [i \in 1..Len(Authenticators[s.currentAuthenticator].params) |->
          [name |-> Authenticators[s.currentAuthenticator].params[i],
           required |-> TRUE,
           initialValue |-> ""]]

\* formFields: one field per declared param of the current authenticator.
formFields(s) ==
  IF s.currentAuthenticator = Null THEN <<>>
  ELSE [i \in 1..Len(Authenticators[s.currentAuthenticator].params) |->
          [name |-> Authenticators[s.currentAuthenticator].params[i],
           required |-> Authenticators[s.currentAuthenticator].params[i]
                          \in Authenticators[s.currentAuthenticator].requiredParams,
           initialValue |-> ""]]

\* validator: a required field is invalid when empty or whitespace-only.
IsBlank(value) == value = "" \/ value = " "

\* validateForm().isValid over the rendered formFields.
validateForm(s) ==
  \A i \in 1..Len(formFields(s)) :
     formFields(s)[i].required => ~IsBlank(s.formValues[formFields(s)[i].name])

resetForm(s) == [s EXCEPT !.formValues = [p \in Params |-> ""]]

\* setupFormFields without its resetForm() call.
setupFormFields_NoReset(s, authenticator) ==
  [s EXCEPT !.formValues =
     [p \in Params |-> IF p \in ParamSet(authenticator) THEN "" ELSE s.formValues[p]]]

setupFormFields(s, authenticator) ==
  [resetForm(s) EXCEPT !.formValues =
     [p \in Params |-> IF p \in ParamSet(authenticator) THEN "" ELSE resetForm(s).formValues[p]]]

setCurrentAuthenticator(s, authenticator) ==
  [s EXCEPT !.currentAuthenticator = authenticator,
            !.effectDue = (authenticator # Null /\ isPasskeyAuthenticator(authenticator))]

\* formData built by a form's onSubmit: the authenticator's params read from the form values.
FormData(s, authenticator) == [p \in ParamSet(authenticator) |-> s.formValues[p]]

\* await onSubmit(payload, {method, url}): the payload goes out and the caller is suspended.
CallOnSubmit(s, kind, flow, authenticator, params, popup) ==
  [s EXCEPT !.calls = Append(@, [kind |-> kind, flow |-> flow, auth |-> authenticator, popup |-> popup]),
            !.requests = @ + 1,
            !.io.sent = Append(@, [flowId |-> FlowId,
                                   authenticatorId |-> Authenticators[authenticator].authenticatorId,
                                   params |-> params,
                                   config |-> Links(flow),
                                   kind |-> kind,
                                   popup |-> popup])]

\* await handleWebAuthnAuthentication(challengeData)
Await(s, kind, flow, authenticator) ==
  [s EXCEPT !.calls = Append(@, [kind |-> kind, flow |-> flow, auth |-> authenticator, popup |-> 0])]

\* await onInitialize()
CallOnInitialize(s) ==
  [s EXCEPT !.calls = Append(@, [kind |-> "init", flow |-> s.currentFlow, auth |-> Null, popup |-> 0])]

\* -------------------------------------------------- redirect coordinator
\* window.open(redirectUrl, 'oauth_popup', ...): the named window is reused while it is open.
WindowOpen(s) ==
  IF Len(s.windows) > 0 /\ ~s.windows[Len(s.windows)].closed
    THEN [s EXCEPT !.windows[Len(s.windows)].url = IdpUrl]
    ELSE [s EXCEPT !.windows = Append(@, [closed |-> FALSE, url |-> IdpUrl])]

IsRedirectStep(response) ==
  /\ HasNextStep(response)
  /\ NextStep(response).stepType = AuthenticatorPrompt
  /\ Len(NextStep(response).authenticators) = 1
  /\ Authenticators[NextStep(response).authenticators[1]].promptType = RedirectionPrompt
  /\ Authenticators[NextStep(response).authenticators[1]].redirectUrl

\* Returns the new state and whether a redirect was performed.  popupOk is
\* whether window.open returned a window; when it returned null the failure
\* is written to the console only (io.blocked records it).
handleRedirectionIfNeeded(s, flow, response, popupOk) ==
  IF IsRedirectStep(response) /\ popupOk
    THEN [opened |-> TRUE,
          s |-> [WindowOpen(s) EXCEPT !.popups =
                   Append(@, [win |-> Len(WindowOpen(s).windows),
                              listener |-> TRUE, timer |-> TRUE,
                              hasProcessedCallback |-> FALSE,
                              flow |-> flow,
                              auth |-> NextStep(response).authenticators[1],
                              sentByMessage |-> 0, sentByPoll |-> 0, cleanups |-> 0])]]
  ELSE IF IsRedirectStep(response)
    THEN [opened |-> FALSE, s |-> [s EXCEPT !.io.blocked = TRUE]]
    ELSE [opened |-> FALSE, s |-> s]

\* cleanup(): removeEventListener('message', messageHandler); clearInterval(popupMonitor)
cleanup(s, i) ==
  [s EXCEPT !.popups[i].listener = FALSE, !.popups[i].timer = FALSE,
            !.popups[i].cleanups = @ + 1]

\* popup.close()
PopupClose(s, i) == [s EXCEPT !.windows[s.popups[i].win].closed = TRUE]

ExpectedOrigin == IF afterSignInUrl # Null THEN afterSignInUrl ELSE HostOrigin

\* messageHandler without its origin check (any origin is trusted).
MessageAccepted_SourceOnly(s, i, src, origin) == src = s.popups[i].win

\* The two guards of messageHandler: source is the popup, origin is trusted.
MessageAccepted(s, i, src, origin) ==
  /\ src = s.popups[i].win
  /\ (origin = ExpectedOrigin \/ origin = HostOrigin)

\* const {code, state} = event.data; if (code && state) ...
HasCode(data) == data.code # Null
HasState(data) == data.state # Null

\* params: {code, state} of the payload built from a completion.
CodeStateParams(code, state) == [code |-> code, state |-> state]

\* messageHandler submitting as soon as the message carries a code.
messageHandler_CodeSuffices(s, i, src, origin, data) ==
  IF ~MessageAccepted(s, i, src, origin) THEN s
  ELSE IF HasCode(data)
    THEN CallOnSubmit([s EXCEPT !.popups[i].sentByMessage = @ + 1],
                      "message", s.popups[i].flow, s.popups[i].auth,
                      CodeStateParams(data.code, data.state), i)
    ELSE s

\* messageHandler of attempt i up to its await.
messageHandler(s, i, src, origin, data) ==
  IF ~MessageAccepted(s, i, src, origin) THEN s
  ELSE IF HasCode(data) /\ HasState(data)
    THEN CallOnSubmit([s EXCEPT !.popups[i].sentByMessage = @ + 1],
                      "message", s.popups[i].flow, s.popups[i].auth,
                      CodeStateParams(data.code, data.state), i)
    ELSE s

\* The rest of messageHandler once onSubmit has resolved: popup.close(); cleanup().
messageHandlerResolved(s, c, response) == cleanup(PopupClose(s, c.popup), c.popup)

\* An unhandled rejection of the async listener: nothing after the await runs.
messageHandlerRejected(s, c, err) == s

\* popup.location.href can be read (same origin).
UrlReadable(url) == url.readable
\* popupUrl.includes('code=') || popupUrl.includes('error=')
UrlHasMarker(url) == url.code # Null \/ url.error # Null
\* new URL(popupUrl).searchParams.get(...)
UrlError(url) == url.error
UrlCode(url) == url.code
UrlState(url) == url.state

\* The tick without the test for code= or error=: any readable address is processed.
popupMonitor_AnyReadableAddress(s, i) ==
  IF s.windows[s.popups[i].win].closed THEN cleanup(s, i)
  ELSE IF s.popups[i].hasProcessedCallback THEN s
  ELSE IF ~UrlReadable(s.windows[s.popups[i].win].url) THEN s
  ELSE IF UrlError(s.windows[s.popups[i].win].url) # Null
    THEN cleanup(PopupClose([s EXCEPT !.popups[i].hasProcessedCallback = TRUE], i), i)
  ELSE IF UrlCode(s.windows[s.popups[i].win].url) # Null /\ UrlState(s.windows[s.popups[i].win].url) # Null
    THEN CallOnSubmit([s EXCEPT !.popups[i].hasProcessedCallback = TRUE, !.popups[i].sentByPoll = @ + 1],
                      "poll", s.popups[i].flow, s.popups[i].auth,
                      CodeStateParams(UrlCode(s.windows[s.popups[i].win].url),
                                      UrlState(s.windows[s.popups[i].win].url)), i)
  ELSE [s EXCEPT !.popups[i].hasProcessedCallback = TRUE]

\* The tick setting its latch only where it acts: an address with a marker but
\* without usable values is read again on the next tick.
popupMonitor_LatchWhereItActs(s, i) ==
  IF s.windows[s.popups[i].win].closed THEN cleanup(s, i)
  ELSE IF s.popups[i].hasProcessedCallback THEN s
  ELSE IF ~UrlReadable(s.windows[s.popups[i].win].url) THEN s
  ELSE IF ~UrlHasMarker(s.windows[s.popups[i].win].url) THEN s
  ELSE IF UrlError(s.windows[s.popups[i].win].url) # Null
    THEN cleanup(PopupClose([s EXCEPT !.popups[i].hasProcessedCallback = TRUE], i), i)
  ELSE IF UrlCode(s.windows[s.popups[i].win].url) # Null /\ UrlState(s.windows[s.popups[i].win].url) # Null
    THEN CallOnSubmit([s EXCEPT !.popups[i].hasProcessedCallback = TRUE, !.popups[i].sentByPoll = @ + 1],
                      "poll", s.popups[i].flow, s.popups[i].auth,
                      CodeStateParams(UrlCode(s.windows[s.popups[i].win].url),
                                      UrlState(s.windows[s.popups[i].win].url)), i)
  ELSE s

\* One tick of popupMonitor for attempt i, up to its await.
popupMonitor(s, i) ==
  IF s.windows[s.popups[i].win].closed THEN cleanup(s, i)
  ELSE IF s.popups[i].hasProcessedCallback THEN s
  ELSE IF ~UrlReadable(s.windows[s.popups[i].win].url) THEN s
  ELSE IF ~UrlHasMarker(s.windows[s.popups[i].win].url) THEN s
  ELSE IF UrlError(s.windows[s.popups[i].win].url) # Null
    THEN cleanup(PopupClose([s EXCEPT !.popups[i].hasProcessedCallback = TRUE], i), i)
  ELSE IF UrlCode(s.windows[s.popups[i].win].url) # Null /\ UrlState(s.windows[s.popups[i].win].url) # Null
    THEN CallOnSubmit([s EXCEPT !.popups[i].hasProcessedCallback = TRUE, !.popups[i].sentByPoll = @ + 1],
                      "poll", s.popups[i].flow, s.popups[i].auth,
                      CodeStateParams(UrlCode(s.windows[s.popups[i].win].url),
                                      UrlState(s.windows[s.popups[i].win].url)), i)
  ELSE [s EXCEPT !.popups[i].hasProcessedCallback = TRUE]

\* The rest of the tick once onSubmit has resolved.
popupMonitorResolved(s, c, response) ==
  IF response.flowStatus = SuccessCompleted
    THEN onSuccess(onFlowChange(PopupClose(s, c.popup)), AuthData(response))
    ELSE onFlowChange(PopupClose(s, c.popup))

\* A rejection inside the tick is swallowed by the inner catch.
popupMonitorRejected(s, c, err) == s


\* ------------------------------------------------------------ controller
ErrorText(err, fallback) == IF err = "api" THEN "api error message" ELSE fallback

\* handleSubmit(submittedValues) up to its await.
handleSubmit(s) ==
  IF s.currentFlow = NoFlow \/ s.currentAuthenticator = Null THEN s
  ELSE IF ~validateForm(s) THEN s
  ELSE CallOnSubmit(StartRequest(s), "handleSubmit", s.currentFlow, s.currentAuthenticator,
                    FormData(s, s.currentAuthenticator), 0)

\* throw new Error(...) of the passkey branch, caught by its inner catch.
MissingChallengeData == "Missing challenge data for passkey authentication"

\* handleAuthenticatorSelection(authenticator, formData?) up to its first await
\* (or to its end when it does not await).  flow is the currentFlow of the
\* closure the call was made from; hasFormData tells whether formData was passed.
handleAuthenticatorSelection(s, flow, authenticator, hasFormData) ==
  IF flow = NoFlow THEN s
  ELSE IF isPasskeyAuthenticator(authenticator)
    THEN IF ~Authenticators[authenticator].challengeData
           THEN Finally(setError(StartRequest(s), MissingChallengeData))
           ELSE Await(StartRequest(s), "ceremony", flow, authenticator)
  ELSE IF Authenticators[authenticator].promptType = RedirectionPrompt
    THEN CallOnSubmit(StartRequest(s), "redirection", flow, authenticator, NoParams, 0)
  ELSE IF hasFormData
    THEN IF ~validateForm(s) THEN Finally(StartRequest(s))
         ELSE CallOnSubmit(StartRequest(s), "form", flow, authenticator, FormData(s, authenticator), 0)
  ELSE IF Len(Authenticators[authenticator].params) = 0
    THEN CallOnSubmit(StartRequest(s), "noparam", flow, authenticator, NoParams, 0)
  ELSE Finally(setupFormFields(setCurrentAuthenticator(StartRequest(s), authenticator), authenticator))

\* The choice with the count of authenticators left out of the multi-option test.
SelectAuthenticator_AnyMultiOption(s, flow, response, chain) ==
  IF Len(NextStep(response).authenticators) > 0
    THEN IF NextStep(response).stepType = MultiOptionsPrompt
           THEN setCurrentAuthenticator(s, Null)
         ELSE IF chain /\ isPasskeyAuthenticator(NextStep(response).authenticators[1])
           THEN handleAuthenticatorSelection(s, flow, NextStep(response).authenticators[1], FALSE)
         ELSE setupFormFields(setCurrentAuthenticator(s, NextStep(response).authenticators[1]),
                              NextStep(response).authenticators[1])
    ELSE s

\* The choice made on a next step: a multi-option step with several authenticators
\* clears the active authenticator, any other step activates its first one.  With
\* chain set, a passkey first authenticator is triggered right away instead.
SelectAuthenticator(s, flow, response, chain) ==
  IF Len(NextStep(response).authenticators) > 0
    THEN IF NextStep(response).stepType = MultiOptionsPrompt /\ Len(NextStep(response).authenticators) > 1
           THEN setCurrentAuthenticator(s, Null)
         ELSE IF chain /\ isPasskeyAuthenticator(NextStep(response).authenticators[1])
           THEN handleAuthenticatorSelection(s, flow, NextStep(response).authenticators[1], FALSE)
         ELSE setupFormFields(setCurrentAuthenticator(s, NextStep(response).authenticators[1]),
                              NextStep(response).authenticators[1])
    ELSE s

\* if ('flowId' in response && 'nextStep' in response) { setCurrentFlow(response); ... }
StoreNextStep(s, flow, response, chain) ==
  IF HasNextStep(response)
    THEN SelectAuthenticator([s EXCEPT !.currentFlow = response], flow, response, chain)
    ELSE s

\* A failure check that only knows FailCompleted.
IsFail_CompletedOnly(response) == response.flowStatus = FailCompleted

\* flowStatus === FailCompleted || flowStatus === FailIncomplete
IsFail(response) == response.flowStatus \in {FailCompleted, FailIncomplete}

\* handleSubmit after onSubmit resolved.
handleSubmitResolved(s, c, response, popupOk) ==
  IF response.flowStatus = SuccessCompleted
    THEN Finally(onSuccess(onFlowChange(s), AuthData(response)))
  ELSE IF IsFail(response)
    THEN Finally(setError(onFlowChange(s), "errors.sign.in.flow.completion.failure"))
  ELSE IF handleRedirectionIfNeeded(onFlowChange(s), c.flow, response, popupOk).opened
    THEN Finally(handleRedirectionIfNeeded(onFlowChange(s), c.flow, response, popupOk).s)
  ELSE Finally(StoreNextStep(onFlowChange(s), c.flow, response, FALSE))

handleSubmitRejected(s, c, err) ==
  Finally(onError(setError(s, ErrorText(err, "errors.sign.in.flow.failure"))))

\* Passkey branch after the ceremony resolved: submit the assertion.
ceremonyResolved(s, c) ==
  CallOnSubmit(s, "passkey", c.flow, c.auth, [tokenResponse |-> "assertion"], 0)

\* The inner catch reporting the bare message whatever it says.
ceremonyRejected_BareMessage(s, c, failure) == Finally(setError(s, failure))

\* Passkey branch, inner catch: the ceremony failed.
ceremonyRejected(s, c, failure) ==
  Finally(setError(s, IF IncludesSecurity(failure) THEN failure \o Guidance ELSE failure))

\* The passkey branch without its recursion: a following passkey step is stored
\* like any other step.
passkeyResolved_NoRecursion(s, c, response) ==
  IF response.flowStatus = SuccessCompleted
    THEN Finally(onSuccess(onFlowChange(s), AuthData(response)))
  ELSE IF IsFail(response)
    THEN Finally(setError(onFlowChange(s), "errors.sign.in.flow.passkeys.completion.failure"))
  ELSE Finally(StoreNextStep(onFlowChange(s), c.flow, response, FALSE))

\* Passkey branch after onSubmit resolved.
passkeyResolved(s, c, response) ==
  IF response.flowStatus = SuccessCompleted
    THEN Finally(onSuccess(onFlowChange(s), AuthData(response)))
  ELSE IF IsFail(response)
    THEN Finally(setError(onFlowChange(s), "errors.sign.in.flow.passkeys.completion.failure"))
  ELSE Finally(StoreNextStep(onFlowChange(s), c.flow, response, TRUE))

\* Passkey branch, inner catch: onSubmit rejected (the rejection is an Error with a message).
passkeyRejected(s, c, err) ==
  Finally(setError(s, IF err = "api" THEN "api error message" ELSE "other error message"))

\* Redirection branch after onSubmit resolved.
redirectionResolved(s, c, response, popupOk) ==
  IF response.flowStatus = SuccessCompleted
    THEN Finally(onSuccess(onFlowChange(s), AuthData(response)))
    ELSE Finally(handleRedirectionIfNeeded(onFlowChange(s), c.flow, response, popupOk).s)

\* Form branch after onSubmit resolved.
formResolved(s, c, response, popupOk) ==
  IF response.flowStatus = SuccessCompleted
    THEN Finally(onSuccess(onFlowChange(s), AuthData(response)))
  ELSE IF IsFail(response)
    THEN Finally(setError(onFlowChange(s), "Authentication failed. Please check your credentials and try again."))
  ELSE IF handleRedirectionIfNeeded(onFlowChange(s), c.flow, response, popupOk).opened
    THEN Finally(handleRedirectionIfNeeded(onFlowChange(s), c.flow, response, popupOk).s)
  ELSE Finally(StoreNextStep(onFlowChange(s), c.flow, response, TRUE))

\* No-parameter branch after onSubmit resolved.
noparamResolved(s, c, response, popupOk) ==
  IF response.flowStatus = SuccessCompleted
    THEN Finally(onSuccess(onFlowChange(s), AuthData(response)))
  ELSE IF IsFail(response)
    THEN Finally(setError(onFlowChange(s), "Authentication failed. Please try again."))
  ELSE IF handleRedirectionIfNeeded(onFlowChange(s), c.flow, response, popupOk).opened
    THEN Finally(handleRedirectionIfNeeded(onFlowChange(s), c.flow, response, popupOk).s)
  ELSE Finally(StoreNextStep(onFlowChange(s), c.flow, response, TRUE))

\* The outer catch setting the error state without calling onError.
selectionRejected_NoReport(s, c, err) ==
  Finally(setError(s, ErrorText(err, "Authenticator selection failed")))

\* Outer catch of handleAuthenticatorSelection.
selectionRejected(s, c, err) ==
  Finally(onError(setError(s, ErrorText(err, "Authenticator selection failed"))))

\* The initialize effect after onInitialize resolved.
initializeResolved(s, c, response) ==
  IF response.flowStatus = SuccessCompleted
    THEN Finally(onSuccess(onFlowChange([s EXCEPT !.currentFlow = response, !.isInitialized = TRUE]),
                           AuthData(response)))
    ELSE Finally(SelectAuthenticator(onFlowChange([s EXCEPT !.currentFlow = response, !.isInitialized = TRUE]),
                                     c.flow, response, FALSE))

\* The catch of the initialize effect without its onError call.
initializeRejected_Silent(s, c, err) ==
  Finally(setError(s, ErrorText(err, "errors.sign.in.initialization")))

initializeRejected(s, c, err) ==
  Finally(onError(setError(s, ErrorText(err, "errors.sign.in.initialization"))))

\* The continuation of pending call c when its promise resolves with response.
Resolved(s, c, response, popupOk) ==
  CASE c.kind = "init"         -> initializeResolved(s, c, response)
    [] c.kind = "handleSubmit" -> handleSubmitResolved(s, c, response, popupOk)
    [] c.kind = "passkey"      -> passkeyResolved(s, c, response)
    [] c.kind = "redirection"  -> redirectionResolved(s, c, response, popupOk)
    [] c.kind = "form"         -> formResolved(s, c, response, popupOk)
    [] c.kind = "noparam"      -> noparamResolved(s, c, response, popupOk)
    [] c.kind = "message"      -> messageHandlerResolved(s, c, response)
    [] c.kind = "poll"         -> popupMonitorResolved(s, c, response)

\* The continuation of pending call c when its promise rejects with err.
Rejected(s, c, err) ==
  CASE c.kind = "init"         -> initializeRejected(s, c, err)
    [] c.kind = "handleSubmit" -> handleSubmitRejected(s, c, err)
    [] c.kind = "passkey"      -> passkeyRejected(s, c, err)
    [] c.kind = "redirection"  -> selectionRejected(s, c, err)
    [] c.kind = "form"         -> selectionRejected(s, c, err)
    [] c.kind = "noparam"      -> selectionRejected(s, c, err)
    [] c.kind = "message"      -> messageHandlerRejected(s, c, err)
    [] c.kind = "poll"         -> popupMonitorRejected(s, c, err)


\* ------------------------------------------------------------- rendering
\* hasMultipleOptions()
hasMultipleOptions(s) ==
  /\ s.currentFlow # NoFlow
  /\ HasNextStep(s.currentFlow)
  /\ NextStep(s.currentFlow).stepType = MultiOptionsPrompt
  /\ Len(NextStep(s.currentFlow).authenticators) > 1

\* getAvailableAuthenticators()
getAvailableAuthenticators(s) ==
  IF s.currentFlow = NoFlow \/ ~HasNextStep(s.currentFlow) THEN <<>>
  ELSE NextStep(s.currentFlow).authenticators

\* The filter without its fallback for LOCAL authenticators with params.
IsUserPromptDescriptor_FlagOnly(descriptor) == descriptor.promptType = UserPrompt

\* The filter of userPromptAuthenticators over a descriptor.
IsUserPromptDescriptor(descriptor) ==
  \/ descriptor.promptType = UserPrompt
  \/ (descriptor.idp = "LOCAL" /\ Len(descriptor.params) > 0)

IsUserPrompt(authenticator) == IsUserPromptDescriptor(Authenticators[authenticator])

\* userPromptAuthenticators: rendered as inline forms.
userPromptAuthenticators(s) == SelectSeq(getAvailableAuthenticators(s), IsUserPrompt)

\* The two filters of optionAuthenticators over a descriptor.
IsOptionDescriptor(descriptor) ==
  /\ ~IsUserPromptDescriptor(descriptor)
  /\ descriptor.authenticatorId \notin HIDDEN_AUTHENTICATORS

IsOption(authenticator) == IsOptionDescriptor(Authenticators[authenticator])

\* optionAuthenticators: rendered as choices.
optionAuthenticators(s) == SelectSeq(getAvailableAuthenticators(s), IsOption)

Range(seq) == {seq[i] : i \in 1..Len(seq)}

\* The multi-option view is rendered: forms of the direct-input authenticators
\* and one choice per other authenticator.
MultiOptionViewRendered ==
  /\ ~(~isInitialized /\ isLoading)
  /\ hasMultipleOptions(St)
  /\ currentAuthenticator = Null

\* The form of the active authenticator is rendered: none of the earlier
\* returns of the render (loading card, multi-option view, empty card, passkey
\* spinner) was taken.
FormRendered ==
  /\ ~(~isInitialized /\ isLoading)
  /\ currentAuthenticator # Null
  /\ ~(isPasskeyAuthenticator(currentAuthenticator) /\ ~isLoading)

\* ---------------------------------------------------------------- actions
Init ==
  /\ currentFlow = NoFlow
  /\ currentAuthenticator = Null
  /\ error = Null
  /\ loading = FALSE
  /\ isInitialized = FALSE
  /\ formValues = [p \in Params |-> ""]
  /\ reRenderCheckRef = FALSE
  /\ effectDue = FALSE
  /\ calls = <<>>
  /\ popups = <<>>
  /\ windows = <<>>
  /\ requests = 0
  /\ terminal = FALSE
  /\ seenMulti = FALSE
  /\ latest = NoFlow
  /\ io = Event("mount")
  /\ externalIsLoading \in BOOLEAN
  /\ afterSignInUrl \in {Null, "https://app"}
  /\ mounted = TRUE
  /\ probe = NoProbe
  /\ signIn = NotRendered

\* The caller changes the isLoading prop (until the flow has been initialized).
SetExternalIsLoading ==
  /\ ~reRenderCheckRef
  /\ externalIsLoading' = ~externalIsLoading
  /\ io' = Event("isLoading")
  /\ UNCHANGED <<ctl, afterSignInUrl, mounted, probe, signIn>>

\* The effect without its reRenderCheckRef test: it initializes on every run.
InitializeEffect_EveryRun ==
  /\ mounted
  /\ ~isLoading
  /\ Step(CallOnInitialize(StartRequest([Begin(St, "initialize") EXCEPT !.reRenderCheckRef = TRUE])))

\* useEffect(..., [isLoading]): initialize the flow once.
InitializeEffect ==
  /\ mounted
  /\ ~isLoading
  /\ ~reRenderCheckRef
  /\ Step(CallOnInitialize(StartRequest([Begin(St, "initialize") EXCEPT !.reRenderCheckRef = TRUE])))

\* handleInputChange(param, value)
HandleInputChange ==
  /\ mounted
  /\ \/ FormRendered /\ formFields(St) # <<>>
     \/ MultiOptionViewRendered
  /\ \E p \in EditedParams, v \in Values :
        /\ formValues[p] # v
        /\ Step([Begin(St, "input") EXCEPT !.formValues[p] = v])

\* The single-authenticator form is submitted.
HandleSubmit ==
  /\ mounted
  /\ FormRendered
  /\ IF handleSubmit(St) = St
       THEN UNCHANGED vars
       ELSE Step(handleSubmit(Begin(St, "handleSubmit")))

\* An authenticator of the multi-option view is submitted (inline form) or chosen.
HandleAuthenticatorSelection ==
  /\ mounted
  /\ MultiOptionViewRendered
  /\ \/ \E a \in Range(userPromptAuthenticators(St)) :
          Step(handleAuthenticatorSelection(Begin(St, "select"), currentFlow, a, TRUE))
     \/ \E a \in Range(optionAuthenticators(St)), hasFormData \in BOOLEAN :
          Step(handleAuthenticatorSelection(Begin(St, "select"), currentFlow, a, hasFormData))

\* The passkey auto-trigger effect: useEffect(..., [currentAuthenticator]).  The
\* hook is called only in the render branch taken when the active authenticator
\* is a passkey and nothing is loading, so the render that first takes the
\* branch calls one hook more than the render before it.  Either the effect
\* runs once for the new currentAuthenticator (PasskeyEffect) or the render
\* throws and the component is unmounted (RenderThrows).
PasskeyEffect ==
  /\ mounted
  /\ currentAuthenticator # Null
  /\ isPasskeyAuthenticator(currentAuthenticator)
  /\ ~isLoading
  /\ effectDue
  /\ Step(handleAuthenticatorSelection([Begin(St, "passkeyEffect") EXCEPT !.effectDue = FALSE],
                                       currentFlow, currentAuthenticator, FALSE))

RenderThrows ==
  /\ mounted
  /\ currentAuthenticator # Null
  /\ isPasskeyAuthenticator(currentAuthenticator)
  /\ ~isLoading
  /\ mounted' = FALSE
  /\ io' = Event("renderThrows")
  /\ UNCHANGED <<ctl, externalIsLoading, afterSignInUrl, probe, signIn>>

\* The state in which the continuation of pending call k starts.
Resume(s, op, k) ==
  [Begin(s, op) EXCEPT !.calls = RemoveAt(@, k),
                       !.io.kind = s.calls[k].kind,
                       !.io.attempt = s.calls[k].popup]

\* A pending onInitialize / onSubmit resolves and the suspended handler runs on.
Resolve ==
  \E k \in 1..Len(calls), response \in Responses, popupOk \in BOOLEAN :
     /\ calls[k].kind # "ceremony"
     /\ Step(Resolved([Resume(St, "resolve", k) EXCEPT
                         !.io.status = response.flowStatus,
                         !.io.step = response.step,
                         !.terminal = @ \/ response.flowStatus \in TerminalStatuses,
                         !.seenMulti = @ \/ Len(NextStep(response).authenticators) > 1,
                         !.latest = IF HasNextStep(response) THEN response ELSE @],
                      calls[k], response, popupOk))

\* A pending onInitialize / onSubmit rejects.
Reject ==
  \E k \in 1..Len(calls), err \in Rejections :
     /\ calls[k].kind # "ceremony"
     /\ Step(Rejected(Resume(St, "reject", k), calls[k], err))

\* The credential ceremony returns an assertion.
CeremonyResolve ==
  \E k \in 1..Len(calls) :
     /\ calls[k].kind = "ceremony"
     /\ Step(ceremonyResolved(Resume(St, "ceremony", k), calls[k]))

\* The credential ceremony fails.
CeremonyReject ==
  \E k \in 1..Len(calls), failure \in CeremonyFailures :
     /\ calls[k].kind = "ceremony"
     /\ Step(ceremonyRejected([Resume(St, "ceremonyFailed", k) EXCEPT !.io.failure = failure],
                           calls[k], failure))

\* Dispatch of one message event to the registered listeners, in registration order.
RECURSIVE Dispatch(_, _, _, _, _)
Dispatch(s, i, src, origin, data) ==
  IF i > Len(s.popups) THEN s
  ELSE IF s.popups[i].listener
    THEN Dispatch(messageHandler(s, i, src, origin, data), i + 1, src, origin, data)
    ELSE Dispatch(s, i + 1, src, origin, data)

\* A window posts a message to the host window; src = 0 is a window that is no popup.
MessageDeliver ==
  /\ \E i \in 1..Len(popups) : popups[i].listener
  /\ \E m \in Messages :
        /\ m.src <= Len(windows)
        /\ Step(Dispatch([Begin(St, "message") EXCEPT !.io.src = m.src, !.io.origin = m.origin,
                                                       !.io.data = m.data],
                         1, m.src, m.origin, m.data))

\* The interval timer of attempt i fires.
PollTick ==
  \E i \in 1..Len(popups) :
     /\ popups[i].timer
     /\ IF popupMonitor(St, i) = St
          THEN UNCHANGED vars
          ELSE Step(popupMonitor([Begin(St, "poll") EXCEPT !.io.attempt = i], i))

\* The child window leaves the identity provider for a callback address.
PopupNavigate ==
  \E w \in 1..Len(windows), url \in PopupUrls :
     /\ ~windows[w].closed
     /\ windows[w].url = IdpUrl
     /\ url # IdpUrl
     /\ Step([Begin(St, "navigate") EXCEPT !.windows[w].url = url])

\* The user closes the child window.
PopupUserClose ==
  \E w \in 1..Len(windows) :
     /\ ~windows[w].closed
     /\ Step([Begin(St, "userClose") EXCEPT !.windows[w].closed = TRUE])

Next ==
  \/ SetExternalIsLoading
  \/ InitializeEffect
  \/ HandleInputChange
  \/ HandleSubmit
  \/ HandleAuthenticatorSelection
  \/ PasskeyEffect
  \/ RenderThrows
  \/ Resolve
  \/ Reject
  \/ CeremonyResolve
  \/ CeremonyReject
  \/ MessageDeliver
  \/ PollTick
  \/ PopupNavigate
  \/ PopupUserClose

Spec == Init /\ [][Next]_vars

\* The interval timer keeps firing while it is registered, and every call to the
\* remote service settles; nothing makes the user close the child window.
FairSpec == Spec /\ WF_vars(PollTick) /\ WF_vars(Resolve \/ Reject)

\* ------------------------------------------- utility functions on their own
\* The classifier, the multi-option partition and the tenant-domain extraction
\* are functions of their arguments alone.  PureSpec draws their arguments from
\* bounded sets and applies them; the controller stays as constructed.
MaxAuthenticators == 2
MaxSub == 5

\* Descriptors over every combination of the fields the classifier reads.
ClassifierInputs ==
  [authenticatorId : {PasskeyId, "BasicAuthenticator"},
   promptType : {UserPrompt, InternalPrompt, RedirectionPrompt},
   challengeData : BOOLEAN]

\* Descriptors over every combination of the fields the partition reads.
PartitionInputs ==
  [authenticatorId : {"BasicAuthenticator", "T3JnYW5pemF0aW9uQXV0aGVudGljYXRvcjpTU08"},
   idp : {"LOCAL", "Google"},
   promptType : {UserPrompt, InternalPrompt, RedirectionPrompt},
   params : {<<>>, <<"username">>}]

SeqsUpTo(set, n) == UNION {[1..k -> set] : k \in 0..n}

\* A string is a sequence of pieces: a piece is a separator character or a run
\* of other characters.
Pieces == {"@", "#", "user", "t.com"}

\* payload.sub: a string, a value that is not a string, or missing.
SubValues ==
  [type : {"string"}, chars : SeqsUpTo(Pieces, MaxSub)]
    \cup [type : {"undefined", "number"}, chars : {<<>>}]

\* subjectSeparator: given, or left out (default '@').
Separators == {"undefined", "@", "#"}

\* String.prototype.split(separator)
RECURSIVE Split(_, _)
Split(chars, separator) ==
  IF \A i \in 1..Len(chars) : chars[i] # separator THEN <<chars>>
  ELSE LET i == CHOOSE j \in 1..Len(chars) :
                  chars[j] = separator /\ \A k \in 1..(j - 1) : chars[k] # separator
       IN  <<SubSeq(chars, 1, i - 1)>> \o Split(SubSeq(chars, i + 1, Len(chars)), separator)

\* The extraction with the threshold at two parts.
extractTenantDomainFromIdTokenPayload_TwoParts(payload, subjectSeparator) ==
  IF payload.sub.type # "string" THEN <<>>
  ELSE LET tokens == Split(payload.sub.chars, IF subjectSeparator = "undefined" THEN "@" ELSE subjectSeparator)
       IN  IF Len(tokens) >= 2 THEN tokens[Len(tokens)] ELSE <<>>

\* extractTenantDomainFromIdTokenPayload(payload, subjectSeparator = '@')
extractTenantDomainFromIdTokenPayload(payload, subjectSeparator) ==
  IF payload.sub.type # "string" THEN <<>>
  ELSE LET tokens == Split(payload.sub.chars, IF subjectSeparator = "undefined" THEN "@" ELSE subjectSeparator)
       IN  IF Len(tokens) >= 3 THEN tokens[Len(tokens)] ELSE <<>>

\* The variables of the controller and its environment.
component == <<ctl, io, externalIsLoading, afterSignInUrl, mounted>>

PureInit ==
  /\ Init
  /\ ~externalIsLoading
  /\ afterSignInUrl = Null

\* isPasskeyAuthenticator is applied to a descriptor.
ApplyIsPasskeyAuthenticator ==
  /\ probe = NoProbe
  /\ \E d \in ClassifierInputs :
        probe' = [fn |-> "isPasskeyAuthenticator", authenticator |-> d,
                  result |-> IsPasskeyDescriptor(d)]
  /\ UNCHANGED <<component, signIn>>

\* The multi-option view partitions the authenticators of a step.
ApplyPartition ==
  /\ probe = NoProbe
  /\ \E as \in SeqsUpTo(PartitionInputs, MaxAuthenticators) :
        probe' = [fn |-> "partition", availableAuthenticators |-> as,
                  userPromptAuthenticators |-> SelectSeq(as, IsUserPromptDescriptor),
                  optionAuthenticators |-> SelectSeq(as, IsOptionDescriptor)]
  /\ UNCHANGED <<component, signIn>>

\* extractTenantDomainFromIdTokenPayload is applied to a payload.
ApplyExtractTenantDomain ==
  /\ probe = NoProbe
  /\ \E sub \in SubValues, separator \in Separators :
        probe' = [fn |-> "extractTenantDomain", payload |-> [sub |-> sub], separator |-> separator,
                  result |-> extractTenantDomainFromIdTokenPayload([sub |-> sub], separator)]
  /\ UNCHANGED <<component, signIn>>

PureNext ==
  \/ ApplyIsPasskeyAuthenticator
  \/ ApplyPartition
  \/ ApplyExtractTenantDomain

PureSpec == PureInit /\ [][PureNext]_vars

\* ------------------------------------ component-driven BaseSignInContent
\* The second BaseSignInContent renders the flow components it is given and
\* hands what a button submits to onSubmit; it keeps isSubmitting, error and
\* the form values.
TextInput(id, required) ==
  [type |-> "INPUT", id |-> id, identifier |-> id, required |-> required, actionId |-> Null,
   components |-> <<>>]

Button(id, actionId) ==
  [type |-> "BUTTON", id |-> id, identifier |-> Null, required |-> FALSE, actionId |-> actionId,
   components |-> <<>>]

\* prop components: a block with a required input, an optional input and a
\* button without actionId, followed by a button that declares an actionId.
Components ==
  << [type |-> "BLOCK", id |-> "block", identifier |-> Null, required |-> FALSE, actionId |-> Null,
      components |-> <<TextInput("username", TRUE), TextInput("otp", FALSE), Button("continue", Null)>>],
     Button("social", "action-1") >>

\* extractFormFields(components): one field per INPUT component, nested ones included.
RECURSIVE extractFormFields(_)
extractFormFields(comps) ==
  IF comps = <<>> THEN <<>>
  ELSE (IF Head(comps).type = "INPUT"
          THEN <<[name |-> Head(comps).identifier, required |-> Head(comps).required,
                  initialValue |-> ""]>>
          ELSE <<>>)
       \o extractFormFields(Head(comps).components)
       \o extractFormFields(Tail(comps))

\* The buttons rendered for the components, nested ones included.
RECURSIVE Buttons(_)
Buttons(comps) ==
  IF comps = <<>> THEN {}
  ELSE (IF Head(comps).type = "BUTTON" THEN {Head(comps)} ELSE {})
       \cup Buttons(Head(comps).components) \cup Buttons(Tail(comps))

FieldNames == {extractFormFields(Components)[i].name : i \in 1..Len(extractFormFields(Components))}

\* What the user types into a field.
FieldValues == {"", " ", "x"}

\* The data a button hands to handleSubmit: nothing, or a value per field that
\* may be a string, the empty string, null or undefined.
SubmittedData ==
  [given : {FALSE}, values : {[k \in FieldNames |-> "undefined"]}]
    \cup [given : {TRUE}, values : [FieldNames -> {"x", "", "null", "undefined"}]]

\* Errors a rejected onSubmit may carry: an Error with a message or another value.
SubmitRejections == {"Error", "other"}

\* The validator of a field: a required field is invalid when empty or whitespace-only.
FieldInvalid(field, value) == field.required /\ (value = "" \/ value = " ")

\* validateForm().isValid over the fields of the components.
componentValidateForm(s) ==
  \A i \in 1..Len(extractFormFields(Components)) :
     ~FieldInvalid(extractFormFields(Components)[i], s.formValues[extractFormFields(Components)[i].name])

\* filteredInputs: the entries of data that are not undefined, null or ''.
filteredInputs(data) ==
  IF ~data.given THEN [k \in {} |-> ""]
  ELSE [k \in {n \in FieldNames : data.values[n] \notin {"undefined", "null", ""}} |-> data.values[k]]

\* The payload handleSubmit builds, given by the keys it has and their values.
Payload(comp, data) ==
  IF comp.actionId # Null
    THEN [keys |-> {"actionId"}, actionId |-> comp.actionId, inputs |-> [k \in {} |-> ""]]
    ELSE [keys |-> {"inputs"}, actionId |-> Null, inputs |-> filteredInputs(data)]

\* What the last step of the component was and what it emitted.
Emitted(op) == [op |-> op, component |-> "none", data |-> [given |-> FALSE, values |-> [k \in FieldNames |-> "undefined"]],
                payloads |-> <<>>, onError |-> 0]

\* handleSubmit(component, data) up to its await.
componentHandleSubmit(s, comp, data) ==
  IF ~componentValidateForm(s)
    THEN [s EXCEPT !.io = [Emitted("handleSubmit") EXCEPT !.component = comp.id, !.data = data]]
    ELSE [s EXCEPT !.isSubmitting = TRUE,
                   !.error = Null,
                   !.calls = Append(@, comp.id),
                   !.io = [Emitted("handleSubmit") EXCEPT !.component = comp.id, !.data = data,
                                                         !.payloads = <<Payload(comp, data)>>]]

\* handleSubmit after onSubmit resolved: finally { setIsSubmitting(false) }
componentSubmitResolved(s) ==
  [s EXCEPT !.isSubmitting = FALSE, !.calls = Tail(@), !.io = Emitted("resolve")]

\* handleSubmit after onSubmit rejected: setError, onError, finally.
componentSubmitRejected(s, err) ==
  [s EXCEPT !.isSubmitting = FALSE,
            !.calls = Tail(@),
            !.error = IF err = "Error" THEN "error message" ELSE "errors.sign.in.flow.failure",
            !.io = [Emitted("reject") EXCEPT !.onError = 1]]

\* isLoading = externalIsLoading || isSubmitting: the spinner is rendered instead of the components.
componentIsLoading(s) == s.externalIsLoading \/ s.isSubmitting

ComponentInit ==
  /\ currentFlow = NoFlow
  /\ currentAuthenticator = Null
  /\ error = Null
  /\ loading = FALSE
  /\ isInitialized = FALSE
  /\ formValues = [p \in Params |-> ""]
  /\ reRenderCheckRef = FALSE
  /\ effectDue = FALSE
  /\ calls = <<>>
  /\ popups = <<>>
  /\ windows = <<>>
  /\ requests = 0
  /\ terminal = FALSE
  /\ seenMulti = FALSE
  /\ latest = NoFlow
  /\ io = Event("mount")
  /\ externalIsLoading = FALSE
  /\ afterSignInUrl = Null
  /\ mounted = TRUE
  /\ probe = NoProbe
  /\ signIn = [rendered |-> TRUE, externalIsLoading |-> FALSE, isSubmitting |-> FALSE, error |-> Null,
               formValues |-> [k \in FieldNames |-> ""], calls |-> <<>>, io |-> Emitted("mount")]

\* The caller changes the isLoading prop.
ComponentSetExternalIsLoading ==
  /\ signIn' = [signIn EXCEPT !.externalIsLoading = ~@, !.io = Emitted("isLoading")]
  /\ UNCHANGED <<component, probe>>

\* handleInputChange(name, value) of a rendered input.
ComponentHandleInputChange ==
  /\ ~componentIsLoading(signIn)
  /\ \E name \in FieldNames, value \in FieldValues :
        /\ signIn.formValues[name] # value
        /\ signIn' = [signIn EXCEPT !.formValues[name] = value, !.io = Emitted("input")]
  /\ UNCHANGED <<component, probe>>

\* A rendered button calls handleSubmit(component, data).
ComponentHandleSubmit ==
  /\ ~componentIsLoading(signIn)
  /\ \E button \in Buttons(Components), data \in SubmittedData :
        signIn' = componentHandleSubmit(signIn, button, data)
  /\ UNCHANGED <<component, probe>>

\* The pending onSubmit resolves.
ComponentResolve ==
  /\ signIn.calls # <<>>
  /\ signIn' = componentSubmitResolved(signIn)
  /\ UNCHANGED <<component, probe>>

\* The pending onSubmit rejects.
ComponentReject ==
  /\ signIn.calls # <<>>
  /\ \E err \in SubmitRejections : signIn' = componentSubmitRejected(signIn, err)
  /\ UNCHANGED <<component, probe>>

ComponentNext ==
  \/ ComponentSetExternalIsLoading
  \/ ComponentHandleInputChange
  \/ ComponentHandleSubmit
  \/ ComponentResolve
  \/ ComponentReject

ComponentSpec == ComponentInit /\ [][ComponentNext]_vars

\* ------------------------------------------ repeated redirect hand-offs
\* The controller with room for a second redirect attempt: the user chooses
\* redirect authenticators in the multi-option view, the service answers, and
\* the popup posts its completion.  Everything else of the environment is left
\* out so that two attempts fit.
MaxAttempts == 2

AttemptStep(s) ==
  /\ Len(s.calls) <= MaxCalls + MaxAttempts
  /\ Len(s.popups) <= MaxAttempts
  /\ s.requests <= MaxRequests + MaxAttempts
  /\ Apply(s)
  /\ UNCHANGED <<externalIsLoading, afterSignInUrl, mounted, probe, signIn>>

AttemptInit ==
  /\ Init
  /\ ~externalIsLoading
  /\ afterSignInUrl = Null

\* A redirect authenticator of the multi-option view is chosen.
AttemptSelect ==
  /\ MultiOptionViewRendered
  /\ \E a \in Range(optionAuthenticators(St)) :
        /\ Authenticators[a].promptType = RedirectionPrompt
        /\ AttemptStep(handleAuthenticatorSelection(Begin(St, "select"), currentFlow, a, FALSE))

\* A pending onInitialize / onSubmit resolves; window.open returns a window.
AttemptResolve ==
  \E k \in 1..Len(calls), response \in Responses :
     AttemptStep(Resolved([Resume(St, "resolve", k) EXCEPT
                             !.io.status = response.flowStatus,
                             !.io.step = response.step,
                             !.terminal = @ \/ response.flowStatus \in TerminalStatuses,
                             !.seenMulti = @ \/ Len(NextStep(response).authenticators) > 1,
                             !.latest = IF HasNextStep(response) THEN response ELSE @],
                          calls[k], response, TRUE))

\* The popup posts its completion to the host window.
AttemptMessage ==
  /\ \E i \in 1..Len(popups) : popups[i].listener
  /\ \E m \in Messages :
        /\ m.src \in 1..Len(windows)
        /\ m.origin = HostOrigin
        /\ m.data = CodeAndState
        /\ AttemptStep(Dispatch([Begin(St, "message") EXCEPT !.io.src = m.src, !.io.origin = m.origin,
                                                              !.io.data = m.data],
                                1, m.src, m.origin, m.data))

AttemptNext ==
  \/ InitializeEffect
  \/ AttemptSelect
  \/ AttemptResolve
  \/ AttemptMessage

AttemptSpec == AttemptInit /\ [][AttemptNext]_vars

\* ------------------------------------------- the external loading flag
\* The controller under a parent that changes the isLoading prop at any time,
\* before and after the flow was initialized; the user only fills in and
\* submits forms.
IsLoadingPropChanges ==
  /\ mounted
  /\ externalIsLoading' = ~externalIsLoading
  /\ io' = Event("isLoading")
  /\ UNCHANGED <<ctl, afterSignInUrl, mounted, probe, signIn>>

LoadingNext ==
  \/ IsLoadingPropChanges
  \/ InitializeEffect
  \/ HandleInputChange
  \/ HandleSubmit
  \/ Resolve
  \/ Reject

LoadingSpec == Init /\ [][LoadingNext]_vars

\* --------------------------------------- steps led by a hidden authenticator
\* The controller under a server that may also answer with a step whose only
\* authenticator is on HIDDEN_AUTHENTICATORS.
HiddenResolve ==
  \E k \in 1..Len(calls), response \in Responses \cup {[flowStatus |-> InProgress, step |-> "ssoOnly"]} :
     /\ calls[k].kind # "ceremony"
     /\ Step(Resolved([Resume(St, "resolve", k) EXCEPT
                         !.io.status = response.flowStatus,
                         !.io.step = response.step,
                         !.terminal = @ \/ response.flowStatus \in TerminalStatuses,
                         !.seenMulti = @ \/ Len(NextStep(response).authenticators) > 1,
                         !.latest = IF HasNextStep(response) THEN response ELSE @],
                      calls[k], response, TRUE))

HiddenNext ==
  \/ InitializeEffect
  \/ HandleInputChange
  \/ HandleSubmit
  \/ HiddenResolve

HiddenSpec == AttemptInit /\ [][HiddenNext]_vars

\* ----------------------------------------------------------------- claims
Attempts == 1..Len(popups)

ControllerKinds == {"init", "handleSubmit", "passkey", "redirection", "form", "noparam"}

PopupKinds == {"message", "poll"}

\* C1: for one redirect attempt, when both the message channel and the poll
\* channel detect a valid {code, state}, only one of them passes a payload to
\* onSubmit: never has each channel submitted for the same attempt.
C1_ExactlyOncePerAttempt ==
  \A i \in Attempts : ~(popups[i].sentByMessage >= 1 /\ popups[i].sentByPoll >= 1)

\* C2: once a response with status SuccessCompleted, FailCompleted or
\* FailIncomplete has been received, no step sends another payload.
C2_NoSubmissionAfterTerminal == [][terminal => io'.sent = <<>>]_vars

\* C3: at most one onInitialize / onSubmit call made by the initialize effect,
\* handleSubmit or handleAuthenticatorSelection is outstanding at any time.
C3_SingleOutstandingCall ==
  Cardinality({k \in 1..Len(calls) : calls[k].kind \in ControllerKinds}) <= 1

\* C4: a message whose source is not the attempt's popup, or whose origin is
\* neither the expected origin (afterSignInUrl's, else the host's) nor the host
\* origin, changes nothing for that attempt: no onSubmit call, popup not closed,
\* listener, timer and latch as before; when every listener rejects it, the
\* whole controller state is unchanged and nothing is emitted.
Untrusted(i, src, origin) ==
  \/ src # popups[i].win
  \/ (origin # (IF afterSignInUrl # Null THEN afterSignInUrl ELSE HostOrigin) /\ origin # HostOrigin)

C4_UntrustedMessageIgnored ==
  [][io'.op = "message" =>
       /\ \A i \in Attempts :
             Untrusted(i, io'.src, io'.origin) =>
                /\ popups'[i] = popups[i]
                /\ windows'[popups[i].win] = windows[popups[i].win]
                /\ \A j \in 1..Len(io'.sent) : io'.sent[j].popup # i
       /\ (\A i \in Attempts : Untrusted(i, io'.src, io'.origin)) =>
             /\ UNCHANGED ctl
             /\ io'.sent = <<>> /\ io'.onSuccess = <<>> /\ io'.onError = 0 /\ io'.onFlowChange = 0]_vars

\* C4 witness: the popup itself posted {code, state} from an origin that is not trusted,
\* while the listener was registered and the popup open.
C4_Witness ==
  \E i \in Attempts :
     /\ io.op = "message" /\ io.data = CodeAndState
     /\ io.src = popups[i].win /\ io.origin # HostOrigin /\ afterSignInUrl = Null
     /\ popups[i].listener /\ popups[i].timer /\ ~windows[popups[i].win].closed

\* C5: every onSubmit response with status FailCompleted or FailIncomplete
\* leaves the error state set, whichever path made the submission.
C5_FailAlwaysReported ==
  (io.op = "resolve" /\ io.kind # "init" /\ io.status \in {FailCompleted, FailIncomplete})
    => error # Null

\* C6: handling a response with FailCompleted and handling the same response
\* with FailIncomplete give the same controller state and the same outputs
\* (error text, callbacks, current flow and authenticator), for every pending
\* onSubmit call of every path and every next step the response may carry.
FailOutcome(k, status, step, popupOk) ==
  Resolved(Resume(St, "resolve", k), calls[k], [flowStatus |-> status, step |-> step], popupOk)

C6_FailStatusesIndistinguishable ==
  \A k \in 1..Len(calls), step \in DOMAIN Steps, popupOk \in BOOLEAN :
     calls[k].kind \notin {"ceremony", "init"} =>
        FailOutcome(k, FailCompleted, step, popupOk) = FailOutcome(k, FailIncomplete, step, popupOk)

\* C6 witness: a FailIncomplete response to a form submission has been handled
\* and reported with the generic completion failure.
C6_Witness ==
  /\ io.op = "resolve" /\ io.kind = "handleSubmit" /\ io.status = FailIncomplete
  /\ error = "errors.sign.in.flow.completion.failure"
  /\ ~loading

\* C7: an onSubmit response with status SuccessCompleted makes onSuccess be
\* called exactly once, with that response's authData, on every path.
C7_SuccessCallsOnSuccessOnce ==
  (io.op = "resolve" /\ io.kind # "init" /\ io.status = SuccessCompleted)
    => io.onSuccess = <<"authData">>

\* C8: after a redirect completion (message or poll channel) whose response is
\* InProgress with a next step, the stored flow is that response and the
\* authenticator-selection rule has been applied to it.
SelectionRule(step) ==
  IF Steps[step].stepType = MultiOptionsPrompt /\ Len(Steps[step].authenticators) > 1
    THEN Null
    ELSE Steps[step].authenticators[1]

C8_RedirectCompletionContinuesFlow ==
  (io.op = "resolve" /\ io.kind \in PopupKinds /\ io.status = InProgress /\ io.step # "none")
    => /\ currentFlow = [flowStatus |-> InProgress, step |-> io.step]
       /\ currentAuthenticator = SelectionRule(io.step)

\* C9: every redirect attempt that has taken an exit (a completion or an error
\* was detected by either channel, or the popup was closed) eventually has its
\* message listener removed and its poll timer cleared.
ExitTaken(i) ==
  \/ popups[i].hasProcessedCallback
  \/ popups[i].sentByMessage > 0
  \/ windows[popups[i].win].closed

Released(i) == ~popups[i].listener /\ ~popups[i].timer

C9_EventuallyReleased ==
  \A i \in 1..MaxPopups :
     (i <= Len(popups) /\ ExitTaken(i)) ~> (i <= Len(popups) /\ Released(i))

\* C10: for one redirect attempt the release step (cleanup) executes at most
\* once, and exactly once when the attempt is over.
C10_ReleaseExactlyOnce ==
  \A i \in Attempts :
     /\ popups[i].cleanups <= 1
     /\ Released(i) => popups[i].cleanups = 1

\* The caller was told of a failure by the step just taken: onError was called
\* or a new error text was stored.
Reported == io'.onError > 0 \/ (error' # Null /\ error' # error)

\* C11: when a channel extracts an error parameter (an {error} message accepted
\* from the popup, or error= read from the popup address by a poll tick), that
\* step closes the popup, removes the listener and clears the timer, reports
\* the error to the caller and sends no payload, and the stored flow and the
\* active authenticator stay as they were.
ErrorExtractedByMessage(i) ==
  /\ io'.op = "message" /\ io'.data = ErrorOnly
  /\ popups[i].listener
  /\ MessageAccepted(St, i, io'.src, io'.origin)

ErrorExtractedByPoll(i) ==
  /\ io'.op = "poll" /\ io'.attempt = i
  /\ popups[i].timer
  /\ ~windows[popups[i].win].closed
  /\ ~popups[i].hasProcessedCallback
  /\ UrlError(windows[popups[i].win].url)

C11_ErrorParameterReported ==
  [][\A i \in Attempts :
       (ErrorExtractedByMessage(i) \/ ErrorExtractedByPoll(i)) =>
          /\ windows'[popups[i].win].closed
          /\ ~popups'[i].listener /\ ~popups'[i].timer
          /\ Reported
          /\ io'.sent = <<>>
          /\ currentFlow' = currentFlow /\ currentAuthenticator' = currentAuthenticator]_vars

\* C12: when the user has closed the popup before either channel detected a
\* completion, the next poll tick removes the listener, clears the timer,
\* reports the abandonment to the caller and sends no payload, and the stored
\* flow stays as it was.
ClosureDetected(i) ==
  /\ io'.op = "poll" /\ io'.attempt = i
  /\ popups[i].timer
  /\ windows[popups[i].win].closed
  /\ ~popups[i].hasProcessedCallback
  /\ popups[i].sentByMessage = 0 /\ popups[i].sentByPoll = 0

C12_AbandonmentReported ==
  [][\A i \in Attempts :
       ClosureDetected(i) =>
          /\ ~popups'[i].listener /\ ~popups'[i].timer
          /\ Reported
          /\ io'.sent = <<>>
          /\ currentFlow' = currentFlow]_vars

\* C13: when window.open returns null the step reports the failure to the
\* caller as an error, registers no listener and no timer (no redirect attempt
\* is recorded) and opens no window.
C13_PopupBlockedReported ==
  [][io'.blocked => (Reported /\ popups' = popups /\ windows' = windows)]_vars

\* C14: every rejection of an onSubmit call, on every path (handleSubmit, the
\* branches of handleAuthenticatorSelection, the poll channel and the message
\* channel), leaves the error state set and calls onError.
SubmitKinds == {"handleSubmit", "passkey", "redirection", "form", "noparam", "message", "poll"}

C14_RejectionSurfaced ==
  (io.op = "reject" /\ io.kind \in SubmitKinds) => (error # Null /\ io.onError > 0)

\* C15: no payload of a form submission (the single-authenticator form, or an
\* inline form of the multi-option view) carries an empty or whitespace-only
\* value for a parameter its authenticator requires.
RequiredOf(id) ==
  UNION {Authenticators[a].requiredParams :
           a \in {b \in AuthenticatorNames : Authenticators[b].authenticatorId = id}}

C15_NoBlankRequiredParameterSent ==
  \A j \in 1..Len(io.sent) :
     io.sent[j].kind \in {"handleSubmit", "form"} =>
        \A p \in DOMAIN io.sent[j].params :
           p \in RequiredOf(io.sent[j].authenticatorId) => ~IsBlank(io.sent[j].params[p])

\* C16: in a run of consecutive sole-passkey steps every step gets exactly one
\* credential ceremony and exactly one payload, however many follow each other:
\* a response to a passkey submission that carries another sole passkey step
\* starts exactly one new ceremony and sends nothing itself; a ceremony that
\* returns sends exactly one payload, for the passkey authenticator; and a
\* ceremony is only ever started one at a time, either by the auto-trigger
\* effect for a newly activated passkey authenticator or by the handling of a
\* response that carries a sole passkey step.
Ceremonies(cs) == Cardinality({k \in 1..Len(cs) : cs[k].kind = "ceremony"})

PasskeyStepReceived ==
  io'.op = "resolve" /\ io'.status = InProgress /\ io'.step = "passkey"

C16_OneCeremonyAndPayloadPerPasskeyStep ==
  [][/\ (PasskeyStepReceived /\ io'.kind = "passkey")
          => (Ceremonies(calls') = Ceremonies(calls) + 1 /\ io'.sent = <<>>)
     /\ io'.op = "ceremony"
          => /\ Ceremonies(calls') = Ceremonies(calls) - 1
             /\ Len(io'.sent) = 1
             /\ io'.sent[1].authenticatorId = PasskeyId
             /\ io'.sent[1].kind = "passkey"
     /\ Ceremonies(calls') > Ceremonies(calls)
          => /\ Ceremonies(calls') = Ceremonies(calls) + 1
             /\ \/ io'.op = "passkeyEffect" /\ effectDue /\ ~effectDue'
                \/ PasskeyStepReceived /\ io'.kind \in {"passkey", "form", "noparam"}]_vars

\* C16 witness: the first payload of the run, a passkey payload, has just been
\* answered with a second sole-passkey step, and the ceremony of that step is
\* the one ceremony in flight.
C16_Witness ==
  /\ io.op = "resolve" /\ io.kind = "passkey" /\ io.status = InProgress /\ io.step = "passkey"
  /\ requests = 1
  /\ Ceremonies(calls) = 1
  /\ ~seenMulti /\ ~terminal
  /\ currentFlow = [flowStatus |-> InProgress, step |-> "passkey"]

\* C17: when the response to a passkey submission carries another sole passkey
\* step (the chain goes on), the controller is still loading after the step
\* and the active authenticator has not been replaced by the intermediate one.
C17_ChainStaysBusy ==
  [][(io'.op = "resolve" /\ io'.kind = "passkey" /\ io'.status = InProgress /\ io'.step = "passkey")
        => (loading' /\ currentAuthenticator' = currentAuthenticator)]_vars

\* C18: as long as every response received offered at most one authenticator,
\* the controller is never in the choose-one pause (the view rendered when
\* hasMultipleOptions() holds and no authenticator is active), and a stored
\* step with one authenticator always has an active authenticator.
ChooseOnePause == hasMultipleOptions(St) /\ currentAuthenticator = Null

C18_NoPauseOnSingleAuthenticatorSteps ==
  ~seenMulti =>
     /\ ~ChooseOnePause
     /\ (HasNextStep(currentFlow) /\ Len(NextStep(currentFlow).authenticators) = 1)
           => currentAuthenticator # Null

\* C18 witness: only single-authenticator steps were received, the last one a
\* MultiOptionsPrompt step with one authenticator, which was made active.
C18_Witness ==
  /\ ~seenMulti
  /\ io.op = "resolve" /\ io.status = InProgress /\ io.step = "single"
  /\ currentFlow = [flowStatus |-> InProgress, step |-> "single"]
  /\ currentAuthenticator = "basic"

\* C19: after initialize, handleSubmit or handleAuthenticatorSelection has
\* handled an in-progress response whose step is neither redirected to a popup
\* nor an auto-triggered passkey: a MultiOptionsPrompt step with more than one
\* authenticator leaves no authenticator active and every authenticator of the
\* step that is not deny-listed exposed (and none of another step); any other
\* step leaves its first authenticator active.
Exposed == Range(userPromptAuthenticators(St)) \cup Range(optionAuthenticators(St))

Hidden == {a \in AuthenticatorNames : Authenticators[a].authenticatorId \in HIDDEN_AUTHENTICATORS}

C19_SelectionFollowsStepType ==
  (io.op = "resolve" /\ io.kind \in ControllerKinds /\ io.status = InProgress
     /\ io.step \in {"basic", "single", "multi"})
    => IF Steps[io.step].stepType = MultiOptionsPrompt /\ Len(Steps[io.step].authenticators) > 1
         THEN /\ currentAuthenticator = Null
              /\ Exposed \ Hidden = Range(Steps[io.step].authenticators) \ Hidden
         ELSE currentAuthenticator = Steps[io.step].authenticators[1]

\* C20: in the multi-option view no exposed authenticator, in the direct-input
\* group or in the selectable group, has an authenticatorId of the deny-list.
C20_HiddenNeverExposed ==
  ChooseOnePause => Exposed \cap Hidden = {}

IsRedirectAuthenticator(authenticator) ==
  /\ Authenticators[authenticator].promptType = RedirectionPrompt
  /\ Authenticators[authenticator].redirectUrl

\* C21: whenever a response of onInitialize or onSubmit (the response to a
\* passkey submission included) carries a step with a single authenticator,
\* a redirect authenticator is handed to the popup coordinator in that very
\* step (a popup attempt is added, unless window.open returned no window) and
\* a passkey authenticator is handed to the ceremony (it is started, or its
\* auto-trigger is due); a redirect authenticator is never made the active
\* authenticator.
C21_SingleAuthenticatorDispatched ==
  [][(/\ io'.op = "resolve"
      /\ io'.kind \in ControllerKinds
      /\ io'.status = InProgress
      /\ Len(Steps[io'.step].authenticators) = 1)
     => /\ (IsRedirectAuthenticator(Steps[io'.step].authenticators[1]) /\ ~io'.blocked)
             => (Len(popups') = Len(popups) + 1 /\ currentAuthenticator' # Steps[io'.step].authenticators[1])
        /\ isPasskeyAuthenticator(Steps[io'.step].authenticators[1])
             => (effectDue' \/ \E k \in 1..Len(calls') : calls'[k].kind = "ceremony")]_vars

\* C22: every payload handed to onSubmit goes to the {method, url} of the most
\* recently received flow response, whichever handler sends it (the popup's
\* message and poll channels and each step of a passkey chain included).
C22_SubmissionTargetIsLatest ==
  [][\A j \in 1..Len(io'.sent) : io'.sent[j].config = Links(latest)]_vars

\* onInitialize was called and rejected: the guard ref is set, no call of the
\* effect is pending and the flow was never marked initialized.
InitializeFailed ==
  /\ reRenderCheckRef
  /\ ~isInitialized
  /\ \A k \in 1..Len(calls) : calls[k].kind # "init"

\* C23: when onInitialize rejects, the failure is reported (the error state is
\* set and onError is called in the step of the rejection), no flow session
\* and no active authenticator is stored, and in every later state no
\* SubmissionPayload has been sent.
C23_InitializeFailureEndsTheFlow ==
  /\ (io.op = "reject" /\ io.kind = "init") => (error # Null /\ io.onError = 1)
  /\ InitializeFailed =>
       /\ error # Null
       /\ currentFlow = NoFlow
       /\ currentAuthenticator = Null
       /\ requests = 0
       /\ io.sent = <<>>
       /\ calls = <<>>

C23_Witness ==
  /\ InitializeFailed
  /\ io.op = "reject"
  /\ io.kind = "init"
  /\ error = "errors.sign.in.initialization"
  /\ ~loading

\* The fields a form must show for an authenticator: its declared params in
\* declared order, required exactly when listed in requiredParams, empty.
FieldsAsDeclared(fields, authenticator) ==
  /\ Len(fields) = Len(Authenticators[authenticator].params)
  /\ \A i \in 1..Len(fields) :
        /\ fields[i].name = Authenticators[authenticator].params[i]
        /\ fields[i].required <=> (fields[i].name \in Authenticators[authenticator].requiredParams)
        /\ fields[i].initialValue = ""

\* C24: when onInitialize returns an in-progress step that is not a
\* multi-option step with more than one authenticator, the step's first
\* authenticator is the active one and the derived field set is exactly its
\* declared params in declared order, each required iff it is in
\* requiredParams, each with an empty initial value.
C24_InitializeActivatesFirstAuthenticator ==
  (/\ io.op = "resolve"
   /\ io.kind = "init"
   /\ io.status = InProgress
   /\ Len(Steps[io.step].authenticators) > 0
   /\ ~(Steps[io.step].stepType = MultiOptionsPrompt /\ Len(Steps[io.step].authenticators) > 1))
  => /\ currentAuthenticator = Steps[io.step].authenticators[1]
     /\ FieldsAsDeclared(formFields(St), Steps[io.step].authenticators[1])

\* The initialize response carried the basic step: two declared params, the
\* first required and the second optional.
C24_Witness ==
  /\ io.op = "resolve"
  /\ io.kind = "init"
  /\ io.step = "basic"
  /\ currentAuthenticator = "basic"
  /\ formFields(St) = <<[name |-> "username", required |-> TRUE, initialValue |-> ""],
                        [name |-> "remember", required |-> FALSE, initialValue |-> ""]>>

\* C25: isPasskeyAuthenticator(a) is true iff a's authenticatorId is the
\* platform passkey identifier, its promptType is InternalPrompt and its
\* additionalData.challengeData is present, for every descriptor of
\* ClassifierInputs.
C25_PasskeyClassification ==
  probe.fn = "isPasskeyAuthenticator"
  => (probe.result = TRUE
        <=> probe.authenticator \in
              {[authenticatorId |-> "FIDOAuthenticator", promptType |-> "INTERNAL_PROMPT",
                challengeData |-> TRUE]})

\* A descriptor with the passkey id and the internal prompt type but without
\* challenge data has been classified (as not a passkey).
C25_Witness ==
  /\ probe.fn = "isPasskeyAuthenticator"
  /\ probe.authenticator.authenticatorId = PasskeyId
  /\ probe.authenticator.promptType = InternalPrompt
  /\ ~probe.authenticator.challengeData
  /\ probe.result = FALSE

\* The completion (message data or popup address) handled by the last step.
Completion ==
  IF io.op = "message" THEN io.data ELSE windows[popups[io.attempt].win].url

\* C26: a payload built from a redirect completion carries the flow's flowId,
\* the authenticatorId of the redirect authenticator that opened the popup and
\* params that are exactly {code, state} with the values of the accepted
\* message or of the popup address; a completion lacking code or lacking
\* state produces no payload.
C26_RedirectCompletionPayload ==
  /\ \A j \in 1..Len(io.sent) :
        io.sent[j].kind \in PopupKinds
        => /\ io.sent[j].flowId = FlowId
           /\ io.sent[j].authenticatorId = "GoogleOIDCAuthenticator"
           /\ DOMAIN io.sent[j].params = {"code", "state"}
           /\ io.sent[j].params.code = Completion.code
           /\ io.sent[j].params.state = Completion.state
           /\ Completion.code \in {"m-code", "u-code"}
           /\ Completion.state \in {"m-state", "u-state"}
  /\ (io.op \in {"message", "poll"} /\ (Completion.code = Null \/ Completion.state = Null))
       => io.sent = <<>>

\* The poll timer has read an address with code and state and sent them.
C26_Witness ==
  /\ io.op = "poll"
  /\ Len(io.sent) = 1
  /\ io.sent[1].params = [code |-> "u-code", state |-> "u-state"]
  /\ io.sent[1].authenticatorId = "GoogleOIDCAuthenticator"

KeepsOrder(seq, whole) ==
  \E f \in [1..Len(seq) -> 1..Len(whole)] :
     /\ \A k \in 1..Len(seq) : seq[k] = whole[f[k]]
     /\ \A k, l \in 1..Len(seq) : k < l => f[k] < f[l]

\* C28: the multi-option partition puts an authenticator in the direct-input
\* group iff its promptType is UserPrompt or it has idp LOCAL with at least
\* one declared param; the two groups are disjoint, each keeps the original
\* relative order, and every non-hidden authenticator of the step is in
\* exactly one group.
C28_PartitionOfAuthenticators ==
  probe.fn = "partition"
  => /\ \A i \in 1..Len(probe.availableAuthenticators) :
          (probe.availableAuthenticators[i] \in Range(probe.userPromptAuthenticators))
            <=> \/ probe.availableAuthenticators[i].promptType = "USER_PROMPT"
                \/ /\ probe.availableAuthenticators[i].idp = "LOCAL"
                   /\ probe.availableAuthenticators[i].params # <<>>
     /\ Range(probe.userPromptAuthenticators) \cap Range(probe.optionAuthenticators) = {}
     /\ KeepsOrder(probe.userPromptAuthenticators, probe.availableAuthenticators)
     /\ KeepsOrder(probe.optionAuthenticators, probe.availableAuthenticators)
     /\ \A i \in 1..Len(probe.availableAuthenticators) :
          probe.availableAuthenticators[i].authenticatorId \notin HIDDEN_AUTHENTICATORS
            => (probe.availableAuthenticators[i] \in Range(probe.userPromptAuthenticators))
                 # (probe.availableAuthenticators[i] \in Range(probe.optionAuthenticators))
     /\ Len(probe.userPromptAuthenticators) + Len(probe.optionAuthenticators)
          <= Len(probe.availableAuthenticators)

\* A step of a redirect authenticator followed by a LOCAL authenticator that
\* declares a param without the UserPrompt flag has been partitioned.
C28_Witness ==
  /\ probe.fn = "partition"
  /\ probe.availableAuthenticators =
       <<[authenticatorId |-> "BasicAuthenticator", idp |-> "Google",
          promptType |-> RedirectionPrompt, params |-> <<>>],
         [authenticatorId |-> "BasicAuthenticator", idp |-> "LOCAL",
          promptType |-> InternalPrompt, params |-> <<"username">>]>>
  /\ probe.userPromptAuthenticators = <<probe.availableAuthenticators[2]>>
  /\ probe.optionAuthenticators = <<probe.availableAuthenticators[1]>>

\* The separator a call splits on.
EffectiveSeparator == IF probe.separator = "undefined" THEN "@" ELSE probe.separator

\* The positions of the separator in the sub string of the payload.
SeparatorPositions ==
  {i \in 1..Len(probe.payload.sub.chars) : probe.payload.sub.chars[i] = EffectiveSeparator}

LastSeparator == CHOOSE i \in SeparatorPositions : \A j \in SeparatorPositions : j <= i

\* C29: extractTenantDomainFromIdTokenPayload(payload, sep) returns the part of
\* payload.sub after its last separator when sub is a string that splits into
\* at least three parts on sep (that is, holds at least two separators; sep is
\* '@' when left out), and the empty string otherwise: sub missing or not a
\* string, fewer than three parts, separator absent; a sub ending with the
\* separator gives the empty string as well.
C29_TenantDomainIsLastPart ==
  probe.fn = "extractTenantDomain"
  => probe.result =
       IF probe.payload.sub.type = "string" /\ Cardinality(SeparatorPositions) >= 2
         THEN SubSeq(probe.payload.sub.chars, LastSeparator + 1, Len(probe.payload.sub.chars))
         ELSE <<>>

\* 'user@user@t.com' has been split on the default separator.
C29_Witness ==
  /\ probe.fn = "extractTenantDomain"
  /\ probe.payload.sub = [type |-> "string", chars |-> <<"user", "@", "user", "@", "t.com">>]
  /\ probe.separator = "undefined"
  /\ probe.result = <<"t.com">>

\* C30: in every reachable state the credential ceremony has been invoked only
\* for an authenticator whose challengeData is present, and the
\* missing-challenge-data failure of the passkey branch has never been raised.
C30_CeremonyOnlyWithChallengeData ==
  /\ \A k \in 1..Len(calls) :
        calls[k].kind \in {"ceremony", "passkey"} => Authenticators[calls[k].auth].challengeData
  /\ error # MissingChallengeData

\* The ceremony has been invoked for the passkey authenticator after a step
\* that also offered the authenticator with the passkey id and no challenge data.
C30_Witness ==
  /\ seenMulti
  /\ error = Null
  /\ \E k \in 1..Len(calls) :
        /\ calls[k].kind = "ceremony"
        /\ Authenticators[calls[k].auth].authenticatorId = PasskeyId
        /\ Authenticators[calls[k].auth].challengeData

NothingToRead(i) ==
  /\ popups[i].timer
  /\ ~windows[popups[i].win].closed
  /\ \/ ~UrlReadable(windows[popups[i].win].url)
     \/ ~UrlHasMarker(windows[popups[i].win].url)

\* C32: a poll tick whose read of the popup address fails (cross-origin) or
\* whose address contains neither code= nor error= changes nothing: the latch
\* stays as it is, nothing is submitted, the popup stays open, the listener and
\* the timer stay registered, so the next tick polls again.
C32_UnreadableTickChangesNothing ==
  \A i \in Attempts : NothingToRead(i) => popupMonitor(St, i) = St

\* The popup has reached a same-origin page without markers while the timer is
\* registered and the latch is unset.
C32_Witness ==
  /\ io.op = "navigate"
  /\ \E i \in Attempts :
        /\ NothingToRead(i)
        /\ windows[popups[i].win].url = CallbackUrl(Null, Null, Null)
        /\ popups[i].listener
        /\ ~popups[i].hasProcessedCallback

\* The form of the component-driven variant is valid: its required field is
\* neither empty nor whitespace.
ComponentFormValid == signIn.formValues["username"] \notin {"", " "}

\* What is left of the submitted data once empty, null and undefined values are removed.
EnteredInputs ==
  IF ~signIn.io.data.given THEN {}
  ELSE {<<k, signIn.io.data.values[k]>> : k \in {n \in {"username", "otp"} : signIn.io.data.values[n] = "x"}}

PairsOf(f) == {<<k, f[k]>> : k \in DOMAIN f}

\* The parts of the claim that do not concern the keys of the action payload:
\* without actionId the inputs go out filtered, and nothing goes out when
\* validation fails.
InputsAndValidation ==
  /\ ~ComponentFormValid => signIn.io.payloads = <<>>
  /\ ComponentFormValid => Len(signIn.io.payloads) = 1
  /\ (ComponentFormValid /\ signIn.io.component = "continue")
       => /\ signIn.io.payloads[1].keys = {"inputs"}
          /\ PairsOf(signIn.io.payloads[1].inputs) = EnteredInputs

\* C33: in the component-driven variant, handleSubmit for a component that
\* declares an actionId sends a payload consisting of the flowId and that
\* actionId; for a component without actionId it sends the entered inputs with
\* empty, null and undefined values removed; when form validation fails it
\* does not call onSubmit.
C33_ComponentPayload ==
  (signIn.rendered /\ signIn.io.op = "handleSubmit")
  => /\ InputsAndValidation
     /\ (ComponentFormValid /\ signIn.io.component = "social")
          => /\ signIn.io.payloads[1].keys = {"flowId", "actionId"}
             /\ signIn.io.payloads[1].actionId = "action-1"

\* C34: within one redirect attempt the message channel sends at most one
\* payload, however many accepted messages with a valid {code, state} the popup
\* delivers (the poll channel detecting nothing), a message arriving while the
\* first submission is outstanding included.
C34_OneSubmissionPerAttemptByMessage ==
  \A i \in Attempts : popups[i].sentByPoll = 0 => popups[i].sentByMessage <= 1

\* C35: at any time at most one redirect coordinator is active: at most one
\* message listener and at most one poll timer are registered, so that one
\* completion posted by the popup leads to at most one submission.
C35_SingleRedirectCoordinator ==
  /\ Cardinality({i \in Attempts : popups[i].listener}) <= 1
  /\ Cardinality({i \in Attempts : popups[i].timer}) <= 1
  /\ io.op = "message" => Len(io.sent) <= 1

\* C36: in every reachable state the active authenticator, when there is one,
\* is one of the authenticators of the stored flow's step.
C36_ActiveAuthenticatorBelongsToStoredStep ==
  currentAuthenticator # Null =>
    currentAuthenticator \in Range(getAvailableAuthenticators(St))

C38_InitializeAtMostOnce ==
  [][/\ io'.op = "initialize" => (~reRenderCheckRef /\ ~isLoading /\ reRenderCheckRef')
     /\ reRenderCheckRef => reRenderCheckRef'
     /\ Cardinality({k \in 1..Len(calls') : calls'[k].kind = "init"}) <= 1
     /\ ~(isInitialized /\ \E k \in 1..Len(calls') : calls'[k].kind = "init")]_vars

\* The parent raises the flag after the flow was initialized and a form was
\* submitted.
C38_Witness ==
  /\ io.op = "isLoading"
  /\ externalIsLoading
  /\ reRenderCheckRef
  /\ isInitialized
  /\ currentFlow # NoFlow
  /\ requests >= 2

\* The address of attempt i's popup can be read and contains code= or error=,
\* but yields neither an error value nor both a code and a state.
Undecidable(url) ==
  /\ UrlReadable(url)
  /\ UrlHasMarker(url)
  /\ UrlError(url) = Null
  /\ ~(UrlCode(url) # Null /\ UrlState(url) # Null)

WithUrl(s, w, url) == [s EXCEPT !.windows[w].url = url]

\* C39: a tick that reads such an address sets the poll latch, sends nothing,
\* leaves the popup open and the listener and the timer registered; no later
\* tick of the attempt sends anything or closes the popup, whatever the popup
\* shows by then: while the popup of a latched attempt is open, a tick changes
\* nothing.
C39_UndecidableAddressSetsLatch ==
  \A i \in Attempts :
    LET w == popups[i].win
        t == popupMonitor(St, i)
    IN  /\ (/\ popups[i].timer
            /\ ~windows[w].closed
            /\ ~popups[i].hasProcessedCallback
            /\ Undecidable(windows[w].url))
           => /\ t = [St EXCEPT !.popups[i].hasProcessedCallback = TRUE]
              /\ \A url \in PopupUrls : popupMonitor(WithUrl(t, w, url), i) = WithUrl(t, w, url)
        /\ (/\ popups[i].hasProcessedCallback
            /\ ~windows[w].closed
            /\ Undecidable(windows[w].url))
           => t = St

C39_Witness ==
  /\ io.op = "poll"
  /\ \E i \in Attempts :
        /\ io.attempt = i
        /\ popups[i].hasProcessedCallback
        /\ windows[popups[i].win].url = CallbackUrl("u-code", Null, Null)
        /\ ~windows[popups[i].win].closed
        /\ popups[i].listener
        /\ popups[i].timer
        /\ popups[i].sentByPoll = 0
        /\ io.sent = <<>>

IsHidden(authenticator) == Authenticators[authenticator].authenticatorId \in HIDDEN_AUTHENTICATORS

\* C40: an authenticator whose authenticatorId is on HIDDEN_AUTHENTICATORS is
\* never the active authenticator and is never named in a submission payload,
\* also when it is the only authenticator of a step that is not a multi-option
\* pause.
C40_HiddenAuthenticatorNeverActive ==
  /\ currentAuthenticator # Null => ~IsHidden(currentAuthenticator)
  /\ \A n \in 1..Len(io.sent) : io.sent[n].authenticatorId \notin HIDDEN_AUTHENTICATORS

====
